---- MODULE Spec2Model ----
(***************************************************************************)
(* Model of numpy/_core/src/umath/override.c: the __array_ufunc__ override *)
(* resolution of a ufunc call (PyUFunc_CheckOverride) and its helper       *)
(* get_array_ufunc_overrides.                                              *)
(*                                                                         *)
(* One behaviour of the model is one call of PyUFunc_CheckOverride.  The   *)
(* call is cut into steps at the points where it calls code it does not    *)
(* own (a handler, the message formatter) or where the C runtime may       *)
(* refuse an allocation.                                                   *)
(*                                                                         *)
(* Objects.  An operand is identified by its position in the scan order    *)
(* inputs, outputs, mask (1-based); its runtime type is a number.  The     *)
(* class hierarchy is the divisibility order on the type numbers: type t   *)
(* is a subclass of type u iff u divides t.  Type 1 is the base ndarray    *)
(* (no override), type 5 is a class that sets __array_ufunc__ = None, and  *)
(* every other type overrides __array_ufunc__.  A tuple is the sequence of *)
(* its items' types; out_args = NULL is the empty sequence (the callers    *)
(* pass NULL, never an empty tuple, when no output was given).  Tuples are  *)
(* fully built, so PyTuple_GET_ITEM never yields NULL (lines 78-82 are     *)
(* never taken), and PyObject_IsInstance answers by the class hierarchy.   *)
(***************************************************************************)
EXTENDS Integers, Sequences, FiniteSets

\* ---------------------------------------------------------------- bounds
\* Type numbers run over 1..NumTypes.
NumTypes == 5
\* Largest number of input operands (PyTuple_GET_SIZE(in_args)).
MaxIn == 1
\* Largest number of output operands when out_args is not NULL.
MaxOut == 1

\* ------------------------------------------------------------- constants
\* The C null pointer, as an operand, a method or a tuple.
NULL == 0
\* The Py_None singleton as the value of __array_ufunc__.
Py_None == -1
\* Return value of get_array_ufunc_overrides and of PyUFunc_CheckOverride
\* on failure.
FAILURE == -1

Types == 1..NumTypes

\* A method name PyUFunc_CheckOverride does not know (lines 388-394).
UnknownMethod == "bogus"
\* The method names it knows (lines 357-387).
KnownMethods == {"__call__", "outer", "reduce", "accumulate", "reduceat", "at"}
Methods == {UnknownMethod} \cup KnownMethods

\* What a handler call can deliver: NULL with an error set, the
\* NotImplemented singleton, or some other object.
HandlerResults == {"NULL", "NotImplemented", "v1", "v2"}

VARIABLES
    in_args,             \* tuple of input operands: sequence of their types
    out_args,            \* tuple of output operands (their types), <<>> for NULL
    wheremask_obj,       \* NULL, or the mask operand's type
    method,              \* the method name passed in
    args,                \* the positional values, then the keyword values
    len_args,            \* number of positional values in args
    kwnames,             \* tuple of keyword names, <<>> for NULL
    normal_kwds,         \* the normalized keyword dictionary
    pc,                  \* position in PyUFunc_CheckOverride
    num_override_args,   \* as in the C code; -1 after a failed scan
    with_override,       \* sequence of operand positions, NULL when cleared
    array_ufunc_methods, \* sequence of methods (type numbers), NULL when cleared
    sel,                 \* slot index i at which the selection loop stopped
    override_obj,        \* operand chosen in this round, or NULL
    override_array_ufunc,\* its method, or NULL
    override_args,       \* the argument tuple, <<>> for NULL or freed
    result,              \* *result
    status,              \* the value returned
    err,                 \* the Python error indicator
    collected,           \* history: with_override as the scan returned it
    invoked,             \* history: slots whose handler was called, in order
    outcomes,            \* history: what each of those calls delivered
    calls,               \* history: the tuple and dictionary each call received
    rounds,              \* history: passes begun of the while loop (line 406)
    obj_decref,          \* per slot: Py_DECREFs of the operand reference taken at line 110
    meth_decref          \* per slot: Py_DECREFs of the method reference taken at line 98

vars == <<in_args, out_args, wheremask_obj, method, args, len_args, kwnames,
          normal_kwds, pc, num_override_args,
          with_override, array_ufunc_methods, sel, override_obj,
          override_array_ufunc, override_args, result, status, err,
          collected, invoked, outcomes, calls, rounds, obj_decref,
          meth_decref>>

\* ------------------------------------------------------- the environment
\* The operands in the order of the scan: inputs, then outputs, then the
\* mask (lines 59-77).  Entry p is Py_TYPE of the operand at position p.
ScanOrder(ins, outs, mask) ==
    ins \o outs \o (IF mask = NULL THEN <<>> ELSE <<mask>>)

\* PyUFuncOverride_GetNonDefaultArrayUfunc on an object of type t: NULL for
\* the base ndarray, Py_None for a class that disables ufuncs, else the
\* class's __array_ufunc__ (named by the type number).
GetNonDefaultArrayUfunc(t) ==
    IF t = 1 THEN NULL ELSE IF t = 5 THEN Py_None ELSE t

\* PyObject_IsInstance(obj, cls) for an object of type t and the class u.
IsInstance(t, u) == t % u = 0

\* ------------------------------------------------ get_array_ufunc_overrides
\* Lines 86-91 with the break left out: new_class then holds the outcome of
\* the comparison with the last recorded override only.
NewClassNoBreak(ops, wo, obj) ==
    Len(wo) = 0 \/ ops[obj] # ops[wo[Len(wo)]]

\* Lines 83-91: "Have we seen this class before?"  ops is the scan order,
\* wo the overrides recorded so far, obj the operand's position.
NewClass(ops, wo, obj) ==
    \A j \in 1..Len(wo) : ops[obj] # ops[wo[j]]

\* Lines 98-109 with the Py_None test left out: the disabling marker is
\* recorded like a method.
IsDisabledNever(m) == FALSE

\* Line 102: method == Py_None.
IsDisabled(m) == m = Py_None

\* Lines 64-116: the scan from position i on.  Delivers the return value
\* (number of overrides, or FAILURE), the two output arrays as they stand at
\* the return, and the position of the operand that stopped the scan.
RECURSIVE ScanFrom(_, _, _, _)
ScanFrom(ops, i, wo, me) ==
    IF i > Len(ops)
    THEN [ret |-> Len(wo), with_override |-> wo, methods |-> me, stop |-> NULL]
    ELSE IF ~NewClass(ops, wo, i)
    THEN ScanFrom(ops, i + 1, wo, me)
    ELSE LET m == GetNonDefaultArrayUfunc(ops[i]) IN
         IF m = NULL
         THEN ScanFrom(ops, i + 1, wo, me)
         ELSE IF IsDisabled(m)
         THEN [ret |-> FAILURE, with_override |-> wo, methods |-> me, stop |-> i]
         ELSE ScanFrom(ops, i + 1, Append(wo, i), Append(me, m))

\* Lines 51-124.
get_array_ufunc_overrides(ins, outs, mask) ==
    ScanFrom(ScanOrder(ins, outs, mask), 1, <<>>, <<>>)

\* ------------------------------------------------------ reference counting
\* One Py_DECREF of the reference held for slot i.
Decref(counts, i) == [counts EXCEPT ![i] = @ + 1]

\* Lines 517-520 (and 119-122): Py_XDECREF of every slot below n that is
\* not NULL.
XDecrefAll(counts, slots, n) ==
    [i \in 1..Len(counts) |->
        IF i <= n /\ slots[i] # NULL THEN counts[i] + 1 ELSE counts[i]]

\* A sequence of n zeros.
Zeros(n) == [i \in 1..n |-> 0]

\* ------------------------------------------------- parameter normalization
\* A dictionary is a function from its keys (strings) to values.  Values
\* are names of objects: "_NoValue" is npy_static_pydata._NoValue,
\* "out_args" is the out_args tuple.
EmptyDict == [k \in {} |-> ""]
\* PyDict_SetItem, PyDict_SetItemString.
SetItem(d, k, v) ==
    [x \in DOMAIN d \cup {k} |-> IF x = k THEN v ELSE d[x]]
\* PyDict_DelItem, PyDict_DelItemString.
DelItem(d, k) == [x \in DOMAIN d \ {k} |-> d[x]]
\* PyDict_Contains.
Contains(d, k) == k \in DOMAIN d

\* npy_static_pydata._NoValue (line 266).
NoValue == "_NoValue"
\* The object out_args as a dictionary value (line 169).
OutArgsObj == "out_args"
\* A NULL entry of a keywords[] table (lines 364-380).
NoKeyword == "NULL"

\* Lines 158-165: the keyword names with their values args[i + len_args],
\* from index i on (1-based here).
RECURSIVE SetKeywords(_, _, _, _, _)
SetKeywords(d, argv, nargs, names, i) ==
    IF i > Len(names) THEN d
    ELSE SetKeywords(SetItem(d, names[i], argv[i + nargs]),
                     argv, nargs, names, i + 1)

\* Lines 167-183 with the else branch left out: a keyword named out stays
\* when out_args is NULL.
NormalizeOutKeep(d, outs) ==
    IF outs # <<>> THEN SetItem(d, "out", OutArgsObj) ELSE d

\* Lines 167-183: put the normalized out_args under "out", or make sure
\* "out" is absent.
NormalizeOut(d, outs) ==
    IF outs # <<>>
    THEN SetItem(d, "out", OutArgsObj)
    ELSE IF Contains(d, "out") THEN DelItem(d, "out") ELSE d

\* Lines 153-185.
initialize_normal_kwds(outs, argv, nargs, names, d) ==
    NormalizeOut(SetKeywords(d, argv, nargs, names, 1), outs)

\* Lines 203-223 with line 218 left out: "sig" is copied, not renamed.
normalize_signature_keyword_copy(d) ==
    IF Contains(d, "sig") THEN SetItem(d, "signature", d["sig"]) ELSE d

\* Lines 203-223: rename "sig" to "signature".
normalize_signature_keyword(d) ==
    IF Contains(d, "sig")
    THEN DelItem(SetItem(d, "signature", d["sig"]), "sig")
    ELSE d

\* Lines 260-269 left out: the value in slot 5 is copied whatever it is.
SkipInitialNever(i, v) == FALSE

\* Lines 260-269: slot 5 (counted from 0) holding _NoValue is skipped.
SkipInitial(i, v) == i = 5 /\ v = NoValue

\* Lines 256-259 left out: a reserved slot is copied under its table entry.
IsReservedNever(kw) == FALSE

\* Lines 256-259: keywords[i] == NULL.
IsReserved(kw) == kw = NoKeyword

\* Lines 250-277: the loop from slot i on (i counted from 0 as in C; the
\* sequences are 1-based).
RECURSIVE CopyFrom(_, _, _, _, _)
CopyFrom(keywords, argv, nargs, d, i) ==
    IF i >= nargs THEN d
    ELSE IF IsReserved(keywords[i + 1]) \/ SkipInitial(i, argv[i + 1])
    THEN CopyFrom(keywords, argv, nargs, d, i + 1)
    ELSE CopyFrom(keywords, argv, nargs,
                  SetItem(d, keywords[i + 1], argv[i + 1]), i + 1)

\* Lines 250-277.
copy_positional_args_to_kwargs(keywords, argv, nargs, d) ==
    CopyFrom(keywords, argv, nargs, d, 0)

\* Lines 364-366, 372-373, 379-380: the keywords[] tables.
ReduceKeywords ==
    <<NoKeyword, "axis", "dtype", NoKeyword, "keepdims", "initial", "where">>
AccumulateKeywords == <<NoKeyword, "axis", "dtype", NoKeyword>>
ReduceatKeywords == <<NoKeyword, NoKeyword, "axis", "dtype", NoKeyword>>

\* The table the method's branch uses; none for the other methods.
KeywordsOf(m) ==
    CASE m = "reduce"     -> ReduceKeywords
      [] m = "accumulate" -> AccumulateKeywords
      [] m = "reduceat"   -> ReduceatKeywords
      [] OTHER            -> <<>>

\* Lines 357-361 applied to every method: reduce and its kin rename too.
RenamesSignatureAll(m) == TRUE

\* Lines 357-359: the methods whose branch calls
\* normalize_signature_keyword.
RenamesSignature(m) == m \in {"__call__", "outer"}

\* Lines 357-387: the dictionary the known method m's branch leaves.
NormalizeFor(m, argv, nargs, d) ==
    IF RenamesSignature(m) THEN normalize_signature_keyword(d)
    ELSE IF KeywordsOf(m) # <<>>
    THEN copy_positional_args_to_kwargs(KeywordsOf(m), argv, nargs, d)
    ELSE d

\* --------------------------------------------------- PyUFunc_CheckOverride
\* Lines 420-430 with the search for subtypes left out: pure left to right.
DisqualifiedNever(ops, wo, n, i) == FALSE

\* Lines 420-430 with the test at 422 left out: a slot that was cleared
\* still counts.
DisqualifiedByConsumed(ops, wo, n, i) ==
    \E j \in (i + 1)..n :
        /\ ops[collected[j]] # ops[wo[i]]
        /\ IsInstance(ops[collected[j]], ops[wo[i]])

\* Lines 420-430: "Check for subtypes to the right of obj."  The candidate
\* in slot i loses this round if a slot j > i still holds an operand of a
\* different type that is an instance of slot i's type.
Disqualified(ops, wo, n, i) ==
    \E j \in (i + 1)..n :
        /\ wo[j] # NULL
        /\ ops[wo[j]] # ops[wo[i]]
        /\ IsInstance(ops[wo[j]], ops[wo[i]])

\* The slots the selection loop could stop at.
Acceptable(ops, wo, n) ==
    {i \in 1..n : wo[i] # NULL /\ ~Disqualified(ops, wo, n, i)}

\* Lines 413-440 scanning from the right: the last acceptable slot.
ChosenSlotLast(ops, wo, n) ==
    LET ok == Acceptable(ops, wo, n) IN
    IF ok = {} THEN NULL ELSE CHOOSE i \in ok : \A k \in ok : k <= i

\* Lines 413-440: the slot at which the loop breaks, the first acceptable
\* one from the left; NULL when the loop runs to its end (override_obj is
\* then NULL).
ChosenSlot(ops, wo, n) ==
    LET ok == Acceptable(ops, wo, n) IN
    IF ok = {} THEN NULL ELSE CHOOSE i \in ok : \A k \in ok : i <= k

\* Line 332 never taken.
NoOverridesNever(n) == FALSE

\* Line 332: "No overrides, bail out."
NoOverrides(n) == n = 0

\* Lines 358-394 with the final else treated like "at".
IsKnownMethodAny(m) == TRUE

\* Lines 358-394: the strcmp chain; anything else is the unknown method.
IsKnownMethod(m) == m \in KnownMethods

\* Line 501 never taken: NotImplemented is handed back as the result.
IsNotImplementedNever(r) == FALSE

\* Line 501 always taken: every result that is not NULL is discarded.
IsNotImplementedAlways(r) == TRUE

\* Line 501: *result == Py_NotImplemented.
IsNotImplemented(r) == r = "NotImplemented"

\* Line 497 never taken: a NULL result is handled by the next test.
IsExceptionNever(r) == FALSE

\* Line 497: *result == NULL.
IsException(r) == r = "NULL"

Ops == ScanOrder(in_args, out_args, wheremask_obj)

Inputs == <<in_args, out_args, wheremask_obj, method, args, len_args, kwnames>>
Round == <<sel, override_obj, override_array_ufunc, override_args>>
History == <<collected, invoked, outcomes, calls, rounds>>

\* The ufunc object as a tuple item (line 452).
UfuncObj == "ufunc"
\* A tuple pointer that is NULL.
NoTuple == <<>>

\* Lines 119-122 left out: the failing scan keeps its references.
ReleaseOnFailNone(counts, slots, n) == counts

\* Lines 118-122: the failing scan releases what it recorded.
ReleaseOnFail(counts, slots, n) == XDecrefAll(counts, slots, n)

\* Lines 436-437 left out: the chosen slot stays filled.
ClearSlotNot(slots, i) == slots

\* Lines 436-437: "We won't call this one again".
ClearSlot(slots, i) == [slots EXCEPT ![i] = NULL]

\* Line 411 left out: *result keeps what the last round left.
ResetResultKeep(r) == r

\* Line 411: *result = NULL at the head of every round.
ResetResult(r) == "NULL"

\* Lines 455-460 stopping one item early: the last input is not set.
NewOverrideArgsShort(ufunc, name, ins) ==
    <<NULL, ufunc, name>> \o [i \in 1..(Len(ins) - 1) |-> i]

\* Lines 447-460: the new tuple; item 0 is not set yet, then the ufunc,
\* the method name and the input operands (their scan positions).
NewOverrideArgs(ufunc, name, ins) ==
    <<NULL, ufunc, name>> \o [i \in 1..Len(ins) |-> i]

\* Lines 469, 491: PyTuple_SET_ITEM(override_args, 0, obj).
SetItem0(tuple, obj) == [tuple EXCEPT ![1] = obj]

\* Lines 511-523: leave through cleanup with the given status; fail sets
\* status = -1.  n is num_override_args, wo and me are the arrays as they
\* stand at the goto.
Return(st, n, wo, me, od, md) ==
    /\ status' = st
    /\ obj_decref' = XDecrefAll(od, wo, n)
    /\ meth_decref' = XDecrefAll(md, me, n)
    /\ with_override' = wo
    /\ array_ufunc_methods' = me
    /\ pc' = IF st = 0 THEN "done" ELSE "failed"

\* Lines 326-335: scan the operands; fail, bail out, or go on.
CheckInputs ==
    /\ pc = "start"
    /\ LET r == get_array_ufunc_overrides(in_args, out_args, wheremask_obj)
           n == Len(r.with_override)
       IN /\ num_override_args' = r.ret
          /\ collected' = r.with_override
          /\ IF r.ret = FAILURE
             THEN \* lines 102-108, 118-123, then 328-330
                  /\ err' = "OperandUnsupported"
                  /\ result' = result
                  \* line 107 releases the Py_None it was handed: the last
                  \* entry of meth_decref
                  /\ Return(FAILURE, r.ret, r.with_override, r.methods,
                            ReleaseOnFail(Zeros(n), r.with_override, n),
                            Append(ReleaseOnFail(Zeros(n), r.methods, n), 1))
             ELSE IF NoOverrides(r.ret)
             THEN \* lines 332-335: return 0 at once, no cleanup
                  /\ err' = err
                  /\ result' = "NULL"
                  /\ status' = 0
                  /\ pc' = "done"
                  /\ with_override' = r.with_override
                  /\ array_ufunc_methods' = r.methods
                  /\ obj_decref' = Zeros(n)
                  /\ meth_decref' = Zeros(n)
             ELSE /\ err' = err
                  /\ result' = result
                  /\ status' = status
                  /\ pc' = "normalize"
                  /\ with_override' = r.with_override
                  /\ array_ufunc_methods' = r.methods
                  /\ obj_decref' = Zeros(n)
                  /\ meth_decref' = Zeros(n)
    /\ UNCHANGED <<Inputs, Round, invoked, outcomes, calls, rounds,
                   normal_kwds>>

\* Lines 341-348 when every allocation succeeds: PyDict_New and
\* initialize_normal_kwds.
InitializeKwds ==
    /\ pc = "normalize"
    /\ normal_kwds' =
          initialize_normal_kwds(out_args, args, len_args, kwnames, EmptyDict)
    /\ pc' = "rule"
    /\ UNCHANGED <<Inputs, Round, History, num_override_args, result, err,
                   status, with_override, array_ufunc_methods, obj_decref,
                   meth_decref>>

\* Lines 350-402 when every allocation succeeds: apply the method's rule,
\* make method_name.
NormalizeArgs ==
    /\ pc = "rule"
    /\ IF IsKnownMethod(method)
       THEN /\ normal_kwds' = NormalizeFor(method, args, len_args, normal_kwds)
            /\ pc' = "select"
            /\ UNCHANGED <<err, status, with_override, array_ufunc_methods,
                           obj_decref, meth_decref>>
       ELSE \* lines 389-397
            /\ normal_kwds' = normal_kwds
            /\ err' = "InternalVariantError"
            /\ Return(FAILURE, num_override_args, with_override,
                      array_ufunc_methods, obj_decref, meth_decref)
    /\ UNCHANGED <<Inputs, Round, History, num_override_args, result>>

\* Lines 341-348, 395-402: PyDict_New, a dictionary operation or
\* PyUnicode_FromString fails.
NormalizeFails ==
    /\ pc \in {"normalize", "rule"}
    /\ err' = "MemoryError"
    /\ Return(FAILURE, num_override_args, with_override,
              array_ufunc_methods, obj_decref, meth_decref)
    /\ UNCHANGED <<Inputs, Round, History, num_override_args, result,
                   normal_kwds>>

\* Lines 407-460: one round of the selection, then PyTuple_New, which
\* succeeds (allocated) or returns NULL.
Choose(allocated) ==
    /\ pc = "select"
    /\ result' = ResetResult(result)
    /\ rounds' = rounds + 1
    /\ LET i == ChosenSlot(Ops, with_override, num_override_args)
           wo == IF i = NULL THEN with_override
                 ELSE ClearSlot(with_override, i)
           me == IF i = NULL THEN array_ufunc_methods
                 ELSE ClearSlot(array_ufunc_methods, i)
       IN /\ sel' = i
          /\ override_obj' = IF i = NULL THEN NULL ELSE with_override[i]
          /\ override_array_ufunc' =
                 IF i = NULL THEN NULL ELSE array_ufunc_methods[i]
          /\ IF allocated
             THEN /\ override_args' = NewOverrideArgs(UfuncObj, method, in_args)
                  /\ pc' = IF i = NULL THEN "report" ELSE "invoke"
                  /\ with_override' = wo
                  /\ array_ufunc_methods' = me
                  /\ UNCHANGED <<err, status, obj_decref, meth_decref>>
             ELSE \* lines 448-450
                  /\ override_args' = NoTuple
                  /\ err' = "MemoryError"
                  /\ Return(FAILURE, num_override_args, wo, me, obj_decref, meth_decref)
    /\ UNCHANGED <<Inputs, collected, invoked, outcomes, calls,
                   num_override_args, normal_kwds>>

ChooseOverride == Choose(TRUE)

TupleAllocFails == Choose(FALSE)

\* Lines 487-510: call the chosen __array_ufunc__ and read its result r.
\* The tuple owns the operand reference (line 491), so line 496 releases it.
CallOverride ==
    /\ pc = "invoke"
    /\ \E r \in HandlerResults :
          /\ collected' = collected
          /\ invoked' = Append(invoked, sel)
          /\ outcomes' = Append(outcomes, r)
          /\ calls' = Append(calls, [func |-> override_array_ufunc,
                                     args |-> SetItem0(override_args, override_obj),
                                     kwds |-> normal_kwds])
          /\ result' = r
          /\ override_args' = NoTuple
          /\ LET od == Decref(obj_decref, sel)
                 md == Decref(meth_decref, sel)
             IN IF IsException(r)
                THEN /\ err' = "HandlerInvocationError"
                     /\ Return(FAILURE, num_override_args, with_override,
                               array_ufunc_methods, od, md)
                ELSE IF IsNotImplemented(r)
                THEN /\ pc' = "select"
                     /\ obj_decref' = od
                     /\ meth_decref' = md
                     /\ UNCHANGED <<err, status, with_override,
                                    array_ufunc_methods>>
                ELSE /\ err' = err
                     /\ Return(0, num_override_args, with_override, array_ufunc_methods, od, md)
    /\ UNCHANGED <<Inputs, num_override_args, sel, override_obj,
                   override_array_ufunc, normal_kwds, rounds>>

\* Lines 462-485: no method left to call.  The formatter is imported and
\* called; the import fails, the call fails, or the message becomes the
\* TypeError.  Every way ends at fail.
NoOverrideLeft ==
    /\ pc = "report"
    /\ \E f \in {"import fails", "call fails", "message"} :
          /\ err' = CASE f = "import fails" -> "ImportError"
                      [] f = "call fails"   -> "FormatterError"
                      [] OTHER              -> "UnhandledOverride"
          \* line 474 jumps over the Py_DECREF of line 483
          /\ override_args' = IF f = "import fails"
                              THEN SetItem0(override_args, Py_None)
                              ELSE NoTuple
    /\ Return(FAILURE, num_override_args, with_override,
              array_ufunc_methods, obj_decref, meth_decref)
    /\ UNCHANGED <<Inputs, History, num_override_args, sel, override_obj,
                   override_array_ufunc, result, normal_kwds>>

InArgs == UNION {[1..n -> Types] : n \in 1..MaxIn}
OutArgs == UNION {[1..n -> Types] : n \in 0..MaxOut}

\* State of the locals at the entry of PyUFunc_CheckOverride.
Entry ==
    /\ normal_kwds = EmptyDict
    /\ sel = NULL
    /\ override_obj = NULL
    /\ override_array_ufunc = NULL
    /\ override_args = NoTuple
    /\ result = "unset"
    /\ status = 0
    /\ err = "none"
    /\ invoked = <<>>
    /\ outcomes = <<>>
    /\ calls = <<>>
    /\ rounds = 0

\* The calls of the resolution: every operand set and method name, with no
\* further arguments or with the one keyword sig.
Init ==
    /\ in_args \in InArgs
    /\ out_args \in OutArgs
    /\ wheremask_obj \in {NULL} \cup Types
    /\ method \in Methods
    /\ len_args = 0
    /\ kwnames \in {<<>>, <<"sig">>}
    /\ args = [i \in 1..Len(kwnames) |-> "k1"]
    /\ Entry
    /\ pc = "start"
    /\ num_override_args = 0
    /\ with_override = <<>>
    /\ array_ufunc_methods = <<>>
    /\ collected = <<>>
    /\ obj_decref = <<>>
    /\ meth_decref = <<>>

Next ==
    \/ CheckInputs
    \/ InitializeKwds
    \/ NormalizeArgs
    \/ NormalizeFails
    \/ ChooseOverride
    \/ TupleAllocFails
    \/ CallOverride
    \/ NoOverrideLeft

Spec == Init /\ [][Next]_vars

\* ------------------------------------------ the normalizer on its own
\* Largest number of keyword names handed to the normalizer.
MaxKw == 1

\* Objects standing in the positional slots 0..6 and under the keyword names.
PosToken == <<"p0", "p1", "p2", "p3", "p4", "p5", "p6">>
KwToken == <<"k1", "k2", "k3">>
\* Keyword names a caller may pass.
KwNameSet == {"sig", "signature", "out", "initial", "axis"}

\* n positional values, at most one of them _NoValue.
PosArgs(n) ==
    {[i \in 1..n |-> IF i = s THEN NoValue ELSE PosToken[i]] : s \in 0..n}
\* The values of n keywords, any of them _NoValue.
KwArgs(n) ==
    {[i \in 1..n |-> IF i \in S THEN NoValue ELSE KwToken[((i - 1) % 3) + 1]]
        : S \in SUBSET (1..n)}
\* kwnames: distinct names.
KwNames ==
    {kn \in UNION {[1..n -> KwNameSet] : n \in 0..MaxKw} :
        \A i, j \in 1..Len(kn) : i # j => kn[i] # kn[j]}

\* The resolution at line 341, after a scan that found one candidate (an
\* input of type 2), for every method and every argument list the
\* method's keywords[] table can index.
InitNorm ==
    /\ in_args = <<2>>
    /\ out_args \in {<<>>, <<1>>}
    /\ wheremask_obj = NULL
    /\ method \in Methods
    /\ len_args \in 0..Len(KeywordsOf(method))
    /\ kwnames \in KwNames
    /\ \E pos \in PosArgs(len_args), kws \in KwArgs(Len(kwnames)) :
          args = pos \o kws
    /\ Entry
    /\ LET r == get_array_ufunc_overrides(in_args, out_args, wheremask_obj)
       IN /\ num_override_args = r.ret
          /\ collected = r.with_override
          /\ with_override = r.with_override
          /\ array_ufunc_methods = r.methods
          /\ obj_decref = Zeros(r.ret)
          /\ meth_decref = Zeros(r.ret)
    /\ pc = "normalize"

NextNorm ==
    \/ InitializeKwds
    \/ NormalizeArgs

\* The entry states with no keywords, for a method of each branch of the
\* strcmp chain that ends differently: a rule, a table, no such method.
InitLive ==
    /\ Init
    /\ kwnames = <<>>
    /\ method \in {"__call__", "reduce", UnknownMethod}

\* The call runs to its return without being suspended (a plain C call),
\* and a handler that was called returns: no step that can be taken is
\* put off forever.
SpecLive == InitLive /\ [][Next]_vars /\ WF_vars(Next)

SpecNorm == InitNorm /\ [][NextNorm]_vars

Returned == pc \in {"done", "failed"}

TypeOK ==
    /\ pc \in {"start", "normalize", "rule", "select", "invoke", "report",
              "done", "failed"}
    /\ status \in {0, FAILURE}
    /\ num_override_args \in -1..(MaxIn + MaxOut + 1)
    /\ Len(invoked) = Len(outcomes)

\* ------------------------------------------------------------------ claims
\* The candidates by slot, as the scan delivered them (the slots of
\* with_override are cleared as the candidates are chosen).
Slots == 1..Len(collected)
SlotType(k) == Ops[collected[k]]
StrictSubtype(t, u) == t # u /\ IsInstance(t, u)
Unrelated(t, u) == t # u /\ ~IsInstance(t, u) /\ ~IsInstance(u, t)
WasInvoked(k) == \E p \in 1..Len(invoked) : invoked[p] = k
InvokedBefore(a, b) ==
    \E p, q \in 1..Len(invoked) : p < q /\ invoked[p] = a /\ invoked[q] = b
TimesInvoked(k) == Cardinality({p \in 1..Len(invoked) : invoked[p] = k})
AllDeclined == \A p \in 1..Len(outcomes) : outcomes[p] = "NotImplemented"
IsValue(r) == r \notin {"NULL", "NotImplemented"}
Disabled(t) == GetNonDefaultArrayUfunc(t) = Py_None
HasHandler(t) == GetNonDefaultArrayUfunc(t) \notin {NULL, Py_None}

\* C1: whenever the handler of a candidate A has been invoked, the handler
\* of every candidate B whose type is a strict subtype of A's type was
\* invoked before it, wherever A and B stand in the scan order.
C1_SubtypeFirst ==
    \A a, b \in Slots :
        (StrictSubtype(SlotType(b), SlotType(a)) /\ WasInvoked(a))
            => InvokedBefore(b, a)

\* A base-type candidate standing before its subtype, with a third candidate
\* present, has been invoked (after the subtype).
C1_Witness ==
    /\ Len(collected) >= 3
    /\ \E a, b \in Slots :
          a < b /\ StrictSubtype(SlotType(b), SlotType(a)) /\ WasInvoked(a)

C3_ShortCircuit ==
    \A p \in 1..Len(outcomes) :
        IsValue(outcomes[p])
            => /\ p = Len(outcomes)
               /\ pc = "done" /\ status = 0 /\ err = "none"
               /\ result = outcomes[p]

\* The first handler invoked returned a value while two more candidates
\* were waiting.
C3_Witness ==
    /\ pc = "done" /\ Len(invoked) = 1 /\ IsValue(result)
    /\ num_override_args >= 3

\* C4: if any operand (input, output or mask) is of a type whose
\* __array_ufunc__ is None, no handler is ever invoked and the call, once
\* past the scan, has failed with OperandUnsupported.
C4_DisabledOperand ==
    (\E p \in 1..Len(Ops) : Disabled(Ops[p]))
        => /\ invoked = <<>>
           /\ pc # "start"
                 => pc = "failed" /\ status = FAILURE
                    /\ err = "OperandUnsupported"

\* The disabled operand stands after an operand that supplied a handler.
C4_Witness ==
    /\ pc = "failed" /\ err = "OperandUnsupported"
    /\ \E p, q \in 1..Len(Ops) :
          p < q /\ HasHandler(Ops[p]) /\ Disabled(Ops[q])

\* C5 as stated: of two candidates with unrelated types, the one standing
\* first in the scan order is invoked first, whatever else is in the list.
C5_Original ==
    \A x, y \in Slots :
        (x < y /\ Unrelated(SlotType(x), SlotType(y)) /\ WasInvoked(y))
            => InvokedBefore(x, y)

\* C5 amended: of two candidates X before Y with unrelated types, Y is
\* invoked before X only if, when Y was chosen, a candidate standing after X
\* whose type is a strict subtype of X's type had not been invoked yet.
C5_LeftToRight ==
    \A x, y \in Slots :
        (/\ x < y /\ Unrelated(SlotType(x), SlotType(y))
         /\ WasInvoked(y) /\ ~InvokedBefore(x, y))
            => \E z \in Slots :
                  /\ z > x /\ z # y
                  /\ StrictSubtype(SlotType(z), SlotType(x))
                  /\ ~InvokedBefore(z, y)

\* Two unrelated candidates were invoked left to right in a list that
\* also holds a candidate related to one of them.
C5_Witness ==
    \E x, y, z \in Slots :
        /\ x < y /\ Unrelated(SlotType(x), SlotType(y))
        /\ InvokedBefore(x, y)
        /\ z \notin {x, y}
        /\ \/ IsInstance(SlotType(z), SlotType(x))
           \/ IsInstance(SlotType(x), SlotType(z))

\* C6: a handler that signals an error (NULL result) is the last invocation
\* of the call, which has failed with that error, status -1 and no result.
C6_HandlerError ==
    \A p \in 1..Len(outcomes) :
        outcomes[p] = "NULL"
            => /\ p = Len(outcomes)
               /\ pc = "failed" /\ status = FAILURE
               /\ err = "HandlerInvocationError"
               /\ result = "NULL"

\* The second handler invoked raised while another candidate was waiting.
C6_Witness ==
    /\ pc = "failed" /\ err = "HandlerInvocationError"
    /\ Len(invoked) = 2 /\ num_override_args >= 3

\* C7 as stated: when the call has returned, every operand reference and
\* every method reference taken by the scan has been released exactly once.
C7_Original ==
    Returned
        => \A k \in 1..Len(obj_decref) :
              obj_decref[k] = 1 /\ meth_decref[k] = 1

\* C8: the list the scan delivers (also the one it had built when it
\* stopped at a disabled operand) holds no type twice, is no longer than
\* the number of distinct operand types, holds for each type the first
\* operand of that type, and holds no operand without a handler.
C8_Dedup ==
    (pc = "normalize" \/ (Returned /\ num_override_args \in {0, FAILURE}))
        => /\ \A i, j \in 1..Len(with_override) :
                 i # j => Ops[with_override[i]] # Ops[with_override[j]]
           /\ Len(with_override)
                 <= Cardinality({Ops[p] : p \in 1..Len(Ops)})
           /\ \A i \in 1..Len(with_override) :
                 /\ with_override[i] \in 1..Len(Ops)
                 /\ \A p \in 1..(with_override[i] - 1) :
                       Ops[p] # Ops[with_override[i]]
                 /\ GetNonDefaultArrayUfunc(Ops[with_override[i]]) # NULL

\* The scan has recorded two candidates and skipped a later operand of the
\* type recorded first.
C8_Witness ==
    /\ pc = "normalize"
    /\ Len(with_override) = 2
    /\ \E p, q \in 1..Len(Ops) :
          p + 1 < q /\ Ops[p] = Ops[q] /\ HasHandler(Ops[p])

\* C9: when no operand supplies a handler and none is disabled, the call,
\* once past the scan, has returned 0 with *result = NULL, no error and no
\* handler invoked, whatever the method name.
C9_NoOverride ==
    ((\A p \in 1..Len(Ops) : GetNonDefaultArrayUfunc(Ops[p]) = NULL)
        /\ pc # "start")
        => /\ pc = "done" /\ status = 0 /\ result = "NULL"
           /\ err = "none" /\ invoked = <<>>
           /\ num_override_args = 0

\* No override among three operands, under the unknown method name.
C9_Witness ==
    /\ pc = "done" /\ num_override_args = 0
    /\ method \notin KnownMethods /\ Len(Ops) >= 3

\* C10 as stated: a call with an unknown method name has, when it returns,
\* failed with InternalVariantError, for every operand set.
C10_Original ==
    (method \notin KnownMethods /\ Returned)
        => /\ pc = "failed" /\ err = "InternalVariantError"
           /\ invoked = <<>>

\* C10 amended: under an unknown method name no handler is ever invoked;
\* the call fails with InternalVariantError when the scan recorded at least
\* one candidate and building the keyword dictionary did not fail, and
\* returns 0 without error or result when the scan recorded none.
C10_UnknownMethod ==
    method \notin KnownMethods
        => /\ invoked = <<>>
           /\ (Returned /\ num_override_args >= 1 /\ err # "MemoryError")
                 => /\ pc = "failed" /\ status = FAILURE
                    /\ err = "InternalVariantError"
           /\ (Returned /\ num_override_args = 0)
                 => pc = "done" /\ status = 0 /\ err = "none"
                    /\ result = "NULL"

\* The unknown method name was rejected with candidates at hand.
C10_Witness ==
    /\ method \notin KnownMethods
    /\ pc = "failed" /\ err = "InternalVariantError"
    /\ num_override_args >= 2


\* ------------------------------------------------- normalized parameters
Normalized == pc = "select"
Keys == DOMAIN normal_kwds
KwPassed(k) == \E i \in 1..Len(kwnames) : kwnames[i] = k
KwValue(k) == args[len_args + (CHOOSE i \in 1..Len(kwnames) : kwnames[i] = k)]
ReduceLike == {"reduce", "accumulate", "reduceat"}
\* The schemas as the text lists them.
Schema(m) ==
    CASE m = "reduce" ->
           <<"reserved", "axis", "dtype", "reserved", "keepdims", "initial",
             "where">>
      [] m = "accumulate" -> <<"reserved", "axis", "dtype", "reserved">>
      [] m = "reduceat" ->
           <<"reserved", "reserved", "axis", "dtype", "reserved">>
\* Positional slot i (from 0) was supplied and has the name k.
SlotNamed(i, k) == i < len_args /\ Schema(method)[i + 1] = k
PosValue(i) == args[i + 1]

\* C11: once the dictionary is initialized, and still after the method's
\* rule has run, the key "out" is present exactly when out_args is not
\* NULL, and its value is then out_args, whatever keyword names and
\* positional values were passed.
C11_OutKey ==
    pc \in {"rule", "select"} =>
        /\ ("out" \in Keys) <=> (out_args # <<>>)
        /\ "out" \in Keys => normal_kwds["out"] = OutArgsObj

\* A keyword out and a positional value in the out slot, but no out_args.
C11_Witness ==
    /\ Normalized
    /\ method = "reduce"
    /\ len_args >= 4
    /\ KwPassed("out")
    /\ out_args = <<>>
    /\ "out" \notin Keys

\* C12: the rule of __call__ and outer turns a dictionary with "sig" and
\* without "signature" into one where "signature" has the value of "sig",
\* "sig" is gone and every other entry is as before, and leaves a
\* dictionary without "sig" as it is; the rule of reduce, accumulate,
\* reduceat and at leaves "sig" and "signature" as they are.
C12_Rename ==
    [][pc = "rule" /\ pc' = "select" =>
        /\ (method \in {"__call__", "outer"} /\ "sig" \in Keys
                /\ "signature" \notin Keys) =>
              /\ DOMAIN normal_kwds' = (Keys \ {"sig"}) \cup {"signature"}
              /\ normal_kwds'["signature"] = normal_kwds["sig"]
              /\ \A k \in Keys \ {"sig"} : normal_kwds'[k] = normal_kwds[k]
        /\ (method \in {"__call__", "outer"} /\ "sig" \notin Keys) =>
              normal_kwds' = normal_kwds
        /\ method \in {"reduce", "accumulate", "reduceat", "at"} =>
              \A k \in {"sig", "signature"} :
                  /\ k \in DOMAIN normal_kwds' <=> k \in Keys
                  /\ k \in Keys => normal_kwds'[k] = normal_kwds[k]
    ]_vars

\* __call__ with the keyword sig and an out_args: renamed, "out" kept.
C12_Witness ==
    /\ Normalized
    /\ method = "__call__"
    /\ KwPassed("sig")
    /\ out_args # <<>>
    /\ Keys = {"signature", "out"}
    /\ normal_kwds["signature"] = KwValue("sig")

\* C13: after normalization under reduce, accumulate or reduceat, every
\* supplied positional slot whose schema name is not reserved (and which is
\* not the slot initial holding _NoValue) is in the dictionary under that
\* name, and the keys are only these names, the keyword names and "out";
\* reduce with all seven slots, _NoValue in slot 5, no keywords and no
\* out_args gives exactly the keys axis, dtype, keepdims, where.
C13_Positional ==
    (Normalized /\ method \in ReduceLike) =>
        /\ \A i \in 0..(len_args - 1) :
              LET k == Schema(method)[i + 1]
              IN (k # "reserved" /\ ~(k = "initial" /\ PosValue(i) = NoValue))
                     => (k \in Keys /\ normal_kwds[k] = PosValue(i))
        /\ \A k \in Keys :
              \/ KwPassed(k)
              \/ k = "out"
              \/ k # "reserved" /\ \E i \in 0..(len_args - 1) : SlotNamed(i, k)
        /\ \A k \in Keys : \A i \in 0..(len_args - 1) :
              (Schema(method)[i + 1] = "reserved" /\ PosValue(i) = PosToken[i + 1])
                  => normal_kwds[k] # PosValue(i)
        /\ (method = "reduce" /\ len_args = 7 /\ PosValue(5) = NoValue
                /\ kwnames = <<>> /\ out_args = <<>>)
              => Keys = {"axis", "dtype", "keepdims", "where"}

\* The example of the text.
C13_Witness ==
    /\ Normalized
    /\ method = "reduce"
    /\ len_args = 7
    /\ PosValue(5) = NoValue
    /\ kwnames = <<>>
    /\ out_args = <<>>
    /\ Keys = {"axis", "dtype", "keepdims", "where"}

\* C14 as stated: after normalization under reduce no value of the
\* dictionary is _NoValue.
C14_Original ==
    (Normalized /\ method = "reduce") =>
        \A k \in Keys : normal_kwds[k] # NoValue

\* C14: after normalization under reduce, _NoValue in positional slot 5 is
\* not inserted: "initial" is then in the dictionary only if it was passed
\* by keyword; any _NoValue in the dictionary was passed by keyword or in a
\* positional slot other than 5.
C14_SentinelSkipped ==
    (Normalized /\ method = "reduce") =>
        /\ (len_args > 5 /\ PosValue(5) = NoValue /\ ~KwPassed("initial"))
              => "initial" \notin Keys
        /\ \A k \in Keys : normal_kwds[k] = NoValue =>
              \/ KwPassed(k) /\ KwValue(k) = NoValue
              \/ \E i \in 0..(len_args - 1) :
                    i # 5 /\ SlotNamed(i, k) /\ PosValue(i) = NoValue

\* _NoValue in slot 5 with other slots around it.
C14_Witness ==
    /\ Normalized
    /\ method = "reduce"
    /\ len_args = 7
    /\ PosValue(5) = NoValue
    /\ "initial" \notin Keys
    /\ "where" \in Keys


\* ------------------------------------------------------ handler arguments
\* The input operands as tuple items: their scan positions.
InputOperands == [i \in 1..Len(in_args) |-> i]
\* The items of a handler's tuple after the first three.
InputsOf(c) == SubSeq(c.args, 4, Len(c.args))

C16_Original ==
    Returned =>
        /\ err # "none" => status = 1
        /\ err = "none" => status = 0

\* ------------------------------------------------------- references, slots
\* C17: when the scan stops at an operand with __array_ufunc__ = None,
\* every operand and method recorded before it has been released exactly
\* once, the None it was handed has been released, and the cleanup of
\* PyUFunc_CheckOverride has released nothing again.
C17_CollectorAbort ==
    (pc = "failed" /\ err = "OperandUnsupported") =>
        /\ num_override_args = FAILURE
        /\ Len(obj_decref) = Len(collected)
        /\ Len(meth_decref) = Len(collected) + 1
        /\ \A k \in Slots : obj_decref[k] = 1 /\ meth_decref[k] = 1
        /\ meth_decref[Len(collected) + 1] = 1

\* The scan recorded a candidate and then met the disabled operand.
C17_Witness ==
    /\ pc = "failed"
    /\ err = "OperandUnsupported"
    /\ Len(collected) >= 1
    /\ \A k \in Slots : obj_decref[k] = 1

\* The slots that still hold a candidate.
Remaining == {k \in 1..Len(with_override) : with_override[k] # NULL}
InLoop == pc \in {"select", "invoke", "report"}

\* C18: no candidate's handler is called more than once; a slot is cleared
\* when it is chosen, before the call, and a cleared slot is the one chosen
\* or one already called; in the loop the number of filled slots is the
\* number collected less one for every round begun.
C18_ConsumedOnce ==
    /\ \A k \in Slots : TimesInvoked(k) <= 1
    /\ pc = "invoke" =>
          /\ sel \notin Remaining
          /\ array_ufunc_methods[sel] = NULL
          /\ ~WasInvoked(sel)
    /\ \A k \in Slots : WasInvoked(k) => k \notin Remaining
    /\ InLoop =>
          Cardinality(Remaining) =
              Len(collected) - Len(invoked) - (IF pc = "invoke" THEN 1 ELSE 0)

\* A third candidate chosen after two declined.
C18_Witness ==
    /\ pc = "invoke"
    /\ Len(invoked) = 2
    /\ Cardinality(Remaining) = Len(collected) - 3

\* C19: at the head of a round with a filled slot the loop finds a slot to
\* call, so the no-override path is entered, and UnhandledOverride raised,
\* only when every slot has been cleared and every candidate called.
C19_SelectionSucceeds ==
    /\ (pc = "select" /\ Remaining # {}) =>
          ChosenSlot(Ops, with_override, num_override_args) \in Remaining
    /\ pc = "report" => Remaining = {}
    /\ err = "UnhandledOverride" =>
          /\ Remaining = {}
          /\ \A k \in Slots : WasInvoked(k)

\* A base type left alone after its subtype, further right, declined.
C19_Witness ==
    /\ pc = "invoke"
    /\ Len(invoked) >= 1
    /\ \E k \in Slots : k > sel /\ WasInvoked(k)
                        /\ StrictSubtype(SlotType(k), SlotType(sel))

\* C20: at return *result is never NotImplemented; after a success with
\* candidates it is what the last handler called returned, which is not
\* NotImplemented; after a handler raised, or after every handler called
\* returned NotImplemented, it is NULL.
C20_ResultNotMarker ==
    Returned =>
        /\ result # "NotImplemented"
        /\ (pc = "done" /\ Len(collected) >= 1) =>
              /\ Len(outcomes) >= 1
              /\ result = outcomes[Len(outcomes)]
              /\ IsValue(result)
        /\ (pc = "failed" /\ err = "HandlerInvocationError") => result = "NULL"
        /\ (pc = "failed" /\ Len(outcomes) >= 1 /\ AllDeclined) =>
              result = "NULL"

\* Two handlers declined, then the TypeError.
C20_Witness ==
    /\ pc = "failed"
    /\ err = "UnhandledOverride"
    /\ Len(outcomes) = 2
    /\ AllDeclined
    /\ result = "NULL"


\* -------------------------------------------------------------- termination
\* C21: every call returns (pc done or failed), and with N candidates
\* collected the loop calls at most N handlers and begins at most N + 1
\* rounds.
C21_Terminates ==
    /\ <>Returned
    /\ [](/\ Len(invoked) <= Len(collected)
          /\ rounds <= Len(collected) + 1)

\* Three candidates, all declined: three calls and a fourth round.
C21_Witness ==
    /\ Returned
    /\ Len(collected) = 3
    /\ Len(invoked) = 3
    /\ rounds = 4

====
